---- MODULE Spec2Model ----
(***************************************************************************)
(* Maze solving by depth-first, breadth-first and A* search.               *)
(*                                                                         *)
(* solve_mazes.py parses a text maze into a list of rows of "-" (open)     *)
(* and "#" (wall), picks start and end, and calls one of dfs_algorithm,    *)
(* bfs_algorithm, a_star_algorithm.  Each search is modelled one loop      *)
(* iteration per step.  Python list indexing is modelled as Python does    *)
(* it: an index i with -len <= i < 0 addresses the element len+i, and an   *)
(* index outside -len .. len-1 raises IndexError.                          *)
(***************************************************************************)
EXTENDS Integers, Sequences, FiniteSets

VARIABLES
    maze,            \* the parsed maze: a sequence of rows, each a sequence of "-" / "#"
    algorithm,       \* "dfs", "bfs", "astar"; "none" before a search is selected
    caller,          \* "solve_maze" when start/end were computed by solve_maze, else "direct"
    start, end,      \* the coordinates handed to the search, <<row, col>>
    stack,           \* dfs.py: list of <<node, path>>
    queue,           \* bfs.py: list of <<node, path>>
    heap,            \* astar.py: the entries <<priority, cost, node, path>> held by heapq
    visited,         \* set of coordinates
    node_count,      \* counter of expanded nodes
    pc,              \* "idle", "loop", "done" (returned), "error" (exception raised)
    exit,            \* how the call ended: "none", "found", "exhausted", "IndexError", "ValueError"
    path,            \* returned path (<<>> until a path is returned)
    nodes_explored,  \* returned counter
    first,           \* history: outcome of the first completed invocation
    between          \* history: another algorithm has run since the first invocation

vars == <<maze, algorithm, caller, start, end, stack, queue, heap, visited,
          node_count, pc, exit, path, nodes_explored, first, between>>

-----------------------------------------------------------------------------
(* Bounds of the model. *)

MaxRows == 4     \* rows of a maze
MaxCols == 4     \* cells of a row
MaxCells == 12   \* cells of a rectangular maze
SmallRows == 3   \* rows of a maze of SpecCall, SpecDirect, SpecCompare and SpecAgain
SmallCols == 3   \* cells of a row of such a maze
SmallCells == 9  \* cells of a rectangular maze of SpecDirect and SpecAgain

Cell == {"-", "#"}
Algorithms == {"dfs", "bfs", "astar"}

RowsOfLen(n) == [1..n -> Cell]

\* convert_to_list keeps the rows that hold at least one cell, whatever their
\* lengths.  The rectangular mazes:
Shapes == {sh \in (1..MaxRows) \X (1..MaxCols) : sh[1] * sh[2] <= MaxCells}
RectMazes == UNION {[1..sh[1] -> RowsOfLen(sh[2])] : sh \in Shapes}

\* Mazes whose rows may differ in length.
RaggedRowSet == UNION {RowsOfLen(n) : n \in 1..SmallCols}
RaggedMazes == UNION {[1..k -> RaggedRowSet] : k \in 1..SmallRows}

\* The small rectangular mazes.
SmallShapes == {sh \in (1..SmallRows) \X (1..SmallCols) : sh[1] * sh[2] <= SmallCells}
SmallMazes == UNION {[1..sh[1] -> RowsOfLen(sh[2])] : sh \in SmallShapes}

\* The rectangular mazes of few rows and up to MaxCols columns.
WideShapes == {sh \in (1..SmallRows) \X (1..MaxCols) : sh[1] * sh[2] <= MaxCells}
WideMazes == UNION {[1..sh[1] -> RowsOfLen(sh[2])] : sh \in WideShapes}

-----------------------------------------------------------------------------
(* Python list semantics. *)

\* s[i] is defined for -len(s) <= i < len(s); anything else raises IndexError.
Indexable(s, i) == -Len(s) <= i /\ i < Len(s)

\* s[i] for an indexable i: negative indices count from the end.
Item(s, i) == IF i >= 0 THEN s[i + 1] ELSE s[Len(s) + i + 1]

\* A variant of list.index that gives the position of the last occurrence.
IndexOfLast(s, x) ==
    IF \E i \in 1..Len(s) : s[i] = x
    THEN (CHOOSE i \in 1..Len(s) : s[i] = x /\ \A j \in (i + 1)..Len(s) : s[j] # x) - 1
    ELSE -1

\* list.index(x): position of the first occurrence (0-based); -1 stands for ValueError.
IndexOf(s, x) ==
    IF \E i \in 1..Len(s) : s[i] = x
    THEN (CHOOSE i \in 1..Len(s) : s[i] = x /\ \A j \in 1..(i - 1) : s[j] # x) - 1
    ELSE -1

Abs(x) == IF x < 0 THEN -x ELSE x

-----------------------------------------------------------------------------
(* Neighbour probing, shared shape of the three searches. *)

\* dfs.py / bfs.py: neighbors = [(row+1, col), (row-1, col), (row, col+1), (row, col-1)]
NeighborsDown(node) ==
    << <<node[1] + 1, node[2]>>, <<node[1] - 1, node[2]>>,
       <<node[1], node[2] + 1>>, <<node[1], node[2] - 1>> >>

\* astar.py: neighbors = [(row-1, col), (row+1, col), (row, col-1), (row, col+1)]
NeighborsUp(node) ==
    << <<node[1] - 1, node[2]>>, <<node[1] + 1, node[2]>>,
       <<node[1], node[2] - 1>>, <<node[1], node[2] + 1>> >>

\* maze[n_row][n_col] raises IndexError when either index is out of range.
Raises(m, n) ==
    \/ ~Indexable(m, n[1])
    \/ ~Indexable(Item(m, n[1]), n[2])

\* maze[n_row][n_col] == "-"
ValidMove(m, n) == Item(Item(m, n[1]), n[2]) = "-"

\* The for-loop over the neighbours: the neighbours appended so far (acc), in
\* order, and whether an IndexError ended the loop.  `skip` is the set a
\* neighbour is filtered against (visited in bfs.py, nothing in dfs.py/astar.py);
\* the filter is evaluated after the indexing, as Python's `and` does.
RECURSIVE Probe(_, _, _, _)
Probe(m, ns, skip, acc) ==
    IF ns = <<>> THEN [pushed |-> acc, raised |-> FALSE]
    ELSE LET n == Head(ns) IN
         IF Raises(m, n) THEN [pushed |-> acc, raised |-> TRUE]
         ELSE Probe(m, Tail(ns), skip,
                    IF ValidMove(m, n) /\ n \notin skip THEN Append(acc, n) ELSE acc)

\* A variant of the counting that leaves the counter as it is.
NoIncrement(n) == n

\* node_count += 1
Increment(n) == n + 1

\* A variant of the set-up that keeps the visited set of the previous search.
StaleVisited == visited

\* visited = set() at the top of each search
FreshVisited == {}

\* A variant of the marking: visited = {node}, an assignment in place of add.
Only(v, node) == {node}

\* visited.add(node)
add(v, node) == v \cup {node}

\* node_count = 0 at the top of each search
FreshCount == 0

\* A variant of the heuristic that leaves out the column term.
RowDistance(node, e) == Abs(node[1] - e[1])

\* heuristic(node) of astar.py: Manhattan distance to end
heuristic(node, e) == Abs(node[1] - e[1]) + Abs(node[2] - e[2])

-----------------------------------------------------------------------------
(* heapq on tuples (priority, cost, node, path): Python compares tuples and   *)
(* lists lexicographically.                                                   *)

NodeLess(a, b) == a[1] < b[1] \/ (a[1] = b[1] /\ a[2] < b[2])

\* list < list: the first differing element decides; a proper prefix is smaller.
PathLess(p, q) ==
    \/ \E i \in 1..Len(p) :
          /\ i <= Len(q)
          /\ \A j \in 1..(i - 1) : p[j] = q[j]
          /\ NodeLess(p[i], q[i])
    \/ /\ Len(p) < Len(q)
       /\ \A j \in 1..Len(p) : p[j] = q[j]

EntryLess(a, b) ==
    \/ a[1] < b[1]
    \/ a[1] = b[1] /\ a[2] < b[2]
    \/ a[1] = b[1] /\ a[2] = b[2] /\ NodeLess(a[3], b[3])
    \/ a[1] = b[1] /\ a[2] = b[2] /\ a[3] = b[3] /\ PathLess(a[4], b[4])

\* heapq.heappop returns the smallest entry: its position in the list, found
\* by one pass that keeps the best position so far.
RECURSIVE SmallestFrom(_, _, _)
SmallestFrom(h, i, best) ==
    IF i > Len(h) THEN best
    ELSE SmallestFrom(h, i + 1, IF EntryLess(h[i], h[best]) THEN i ELSE best)

\* A variant of the extraction: heap.pop(), the entry pushed last.
Newest(h) == Len(h)

Smallest(h) == SmallestFrom(h, 2, 1)

Remove(h, i) == SubSeq(h, 1, i - 1) \o SubSeq(h, i + 1, Len(h))

\* The entries pushed for the neighbours ns of an entry with the given cost and path.
RECURSIVE Pushed(_, _, _, _)
Pushed(ns, cost, p, e) ==
    IF ns = <<>> THEN <<>>
    ELSE << <<cost + 1 + heuristic(Head(ns), e), cost + 1, Head(ns), Append(p, Head(ns))>> >>
         \o Pushed(Tail(ns), cost, p, e)

\* A variant of the appended entries: (neighbor, [neighbor]), the path so far
\* dropped.
RECURSIVE Restarted(_, _)
Restarted(ns, p) ==
    IF ns = <<>> THEN <<>>
    ELSE << <<Head(ns), <<Head(ns)>>>> >> \o Restarted(Tail(ns), p)

\* A variant of the appended entries: path.append(neighbor) on the one list in
\* place of path + [neighbor], so that the entries of a pass share the path
\* with all the appended neighbours on it.
Aliased(ns, p) == [i \in 1..Len(ns) |-> <<ns[i], p \o ns>>]

\* (neighbor, path + [neighbor]) for each appended neighbour
RECURSIVE Extended(_, _)
Extended(ns, p) ==
    IF ns = <<>> THEN <<>>
    ELSE << <<Head(ns), Append(p, Head(ns))>> >> \o Extended(Tail(ns), p)

-----------------------------------------------------------------------------
(* The state machine. *)

\* The coordinates (row, column) of the cells of the maze, and the Open ones.
InGrid(m) == UNION {{<<r - 1, c - 1>> : c \in 1..Len(m[r])} : r \in 1..Len(m)}
OpenCells(m) == {n \in InGrid(m) : m[n[1] + 1][n[2] + 1] = "-"}

NoOutcome == [algorithm |-> "none", exit |-> "none", path |-> <<>>, nodes_explored |-> 0]

\* The state before a search is selected, for a maze of the given family.
Start(family) ==
    /\ maze \in family
    /\ algorithm = "none"
    /\ caller = "none"
    /\ start = <<0, 0>>
    /\ end = <<0, 0>>
    /\ stack = <<>>
    /\ queue = <<>>
    /\ heap = <<>>
    /\ visited = {}
    /\ node_count = 0
    /\ pc = "idle"
    /\ exit = "none"
    /\ path = <<>>
    /\ nodes_explored = 0
    /\ first = NoOutcome
    /\ between = FALSE

Init == Start(RectMazes \cup {<<>>})

\* A variant of the first entry's path: the empty list.
EmptyPath(s) == <<>>

\* [start], the path of the entry the frontier is created with
StartPath(s) == <<s>>

\* The first lines of a search: the frontier holds the start entry, the visited
\* set and the counter are new.
Enter(a, s, e) ==
    /\ algorithm' = a
    /\ start' = s
    /\ end' = e
    /\ stack' = IF a = "dfs" THEN << <<s, StartPath(s)>> >> ELSE <<>>
    /\ queue' = IF a = "bfs" THEN << <<s, StartPath(s)>> >> ELSE <<>>
    /\ heap' = IF a = "astar" THEN << <<heuristic(s, e), 0, s, StartPath(s)>> >> ELSE <<>>
    /\ visited' = FreshVisited
    /\ node_count' = FreshCount
    /\ pc' = "loop"
    /\ exit' = "none"
    /\ path' = <<>>
    /\ nodes_explored' = 0

\* solve_maze(maze, algorithm): start = (0, maze[0].index("-")),
\* end = (len(maze)-1, maze[-1].index("-")), then the selected search.
\* maze[0] of an empty maze raises IndexError, index of a row without "-"
\* raises ValueError.
Solve(a) ==
    /\ caller' = "solve_maze"
    /\ UNCHANGED maze
    /\ IF ~Indexable(maze, 0) \/ ~Indexable(maze, -1)
       THEN /\ pc' = "error"
            /\ exit' = "IndexError"
            /\ UNCHANGED <<algorithm, start, end, stack, queue, heap, visited,
                           node_count, path, nodes_explored>>
       ELSE IF IndexOf(Item(maze, 0), "-") = -1 \/ IndexOf(Item(maze, -1), "-") = -1
       THEN /\ pc' = "error"
            /\ exit' = "ValueError"
            /\ UNCHANGED <<algorithm, start, end, stack, queue, heap, visited,
                           node_count, path, nodes_explored>>
       ELSE Enter(a, <<0, IndexOf(Item(maze, 0), "-")>>,
                     <<Len(maze) - 1, IndexOf(Item(maze, -1), "-")>>)

solve_maze(a) ==
    /\ pc = "idle"
    /\ Solve(a)
    /\ UNCHANGED <<first, between>>

\* A search called with any start and end on Open cells of the maze.
Call(a, s, e) ==
    /\ pc = "idle"
    /\ caller' = "direct"
    /\ UNCHANGED <<maze, first, between>>
    /\ Enter(a, s, e)

\* solve_maze called again on the same maze after an invocation has ended.
\* The history variables keep the outcome of the first invocation.
Outcome == [algorithm |-> algorithm, exit |-> exit, path |-> path,
            nodes_explored |-> nodes_explored]
solve_again(a) ==
    /\ pc \in {"done", "error"}
    /\ algorithm # "none"
    /\ first' = IF first = NoOutcome THEN Outcome ELSE first
    /\ between' = IF first = NoOutcome THEN FALSE
                  ELSE between \/ algorithm # first.algorithm
    /\ Solve(a)

\* return path, node_count   /   return [], node_count
Return(p, how) ==
    /\ pc' = "done"
    /\ exit' = how
    /\ path' = p
    /\ nodes_explored' = node_count

\* One pass of `while stack:` in dfs_algorithm.
DfsStep ==
    /\ pc = "loop" /\ algorithm = "dfs"
    /\ UNCHANGED <<maze, algorithm, caller, start, end, queue, heap, first, between>>
    /\ IF stack = <<>>
       THEN Return(<<>>, "exhausted") /\ UNCHANGED <<stack, visited, node_count>>
       ELSE LET node == stack[Len(stack)][1]
                p    == stack[Len(stack)][2]
                rest == SubSeq(stack, 1, Len(stack) - 1)
                pr   == Probe(maze, NeighborsDown(node), {}, <<>>)
            IN IF node = end
               THEN Return(p, "found") /\ stack' = rest /\ UNCHANGED <<visited, node_count>>
               ELSE IF node \notin visited
               THEN /\ visited' = add(visited, node)
                    /\ node_count' = Increment(node_count)
                    /\ stack' = rest \o Extended(pr.pushed, p)
                    /\ pc' = IF pr.raised THEN "error" ELSE "loop"
                    /\ exit' = IF pr.raised THEN "IndexError" ELSE "none"
                    /\ UNCHANGED <<path, nodes_explored>>
               ELSE /\ stack' = rest
                    /\ UNCHANGED <<visited, node_count, pc, exit, path, nodes_explored>>

\* One pass of `while queue:` in bfs_algorithm.
BfsStep ==
    /\ pc = "loop" /\ algorithm = "bfs"
    /\ UNCHANGED <<maze, algorithm, caller, start, end, stack, heap, first, between>>
    /\ IF queue = <<>>
       THEN Return(<<>>, "exhausted") /\ UNCHANGED <<queue, visited, node_count>>
       ELSE LET node == queue[1][1]
                p    == queue[1][2]
                rest == Tail(queue)
                pr   == Probe(maze, NeighborsDown(node), visited \cup {node}, <<>>)
            IN IF node = end
               THEN Return(p, "found") /\ queue' = rest /\ UNCHANGED <<visited, node_count>>
               ELSE IF node \notin visited
               THEN /\ visited' = add(visited, node)
                    /\ node_count' = Increment(node_count)
                    /\ queue' = rest \o Extended(pr.pushed, p)
                    /\ pc' = IF pr.raised THEN "error" ELSE "loop"
                    /\ exit' = IF pr.raised THEN "IndexError" ELSE "none"
                    /\ UNCHANGED <<path, nodes_explored>>
               ELSE /\ queue' = rest
                    /\ UNCHANGED <<visited, node_count, pc, exit, path, nodes_explored>>

\* One pass of `while heap:` in a_star_algorithm.
AStarStep ==
    /\ pc = "loop" /\ algorithm = "astar"
    /\ UNCHANGED <<maze, algorithm, caller, start, end, stack, queue, first, between>>
    /\ IF heap = <<>>
       THEN Return(<<>>, "exhausted") /\ UNCHANGED <<heap, visited, node_count>>
       ELSE LET i    == Smallest(heap)
                cost == heap[i][2]
                node == heap[i][3]
                p    == heap[i][4]
                rest == Remove(heap, i)
                pr   == Probe(maze, NeighborsUp(node), {}, <<>>)
            IN IF node = end
               THEN Return(p, "found") /\ heap' = rest /\ UNCHANGED <<visited, node_count>>
               ELSE IF node \notin visited
               THEN /\ visited' = add(visited, node)
                    /\ node_count' = Increment(node_count)
                    /\ heap' = rest \o Pushed(pr.pushed, cost, p, end)
                    /\ pc' = IF pr.raised THEN "error" ELSE "loop"
                    /\ exit' = IF pr.raised THEN "IndexError" ELSE "none"
                    /\ UNCHANGED <<path, nodes_explored>>
               ELSE /\ heap' = rest
                    /\ UNCHANGED <<visited, node_count, pc, exit, path, nodes_explored>>

\* The program as main() runs it: every search is entered through solve_maze.
Next ==
    \/ \E a \in Algorithms : solve_maze(a)
    \/ DfsStep
    \/ BfsStep
    \/ AStarStep

Spec == Init /\ [][Next]_vars

\* The searches called directly, on mazes with rows of any lengths.
InitCall == Start(RaggedMazes)

NextCall ==
    \/ pc = "idle" /\ \E a \in Algorithms : \E s, e \in OpenCells(maze) : Call(a, s, e)
    \/ DfsStep
    \/ BfsStep
    \/ AStarStep

SpecCall == InitCall /\ [][NextCall]_vars

\* The searches called directly on the small rectangular mazes.
InitDirect == Start(SmallMazes)

SpecDirect == InitDirect /\ [][NextCall]_vars

\* a_star_algorithm and bfs_algorithm called one after the other, in either
\* order, with the same maze, start and end.  The history variable keeps the
\* outcome of the first of the two calls.
Compared == {"astar", "bfs"}

call_other(a) ==
    /\ pc \in {"done", "error"}
    /\ caller = "direct"
    /\ first = NoOutcome
    /\ a # algorithm
    /\ first' = Outcome
    /\ between' = FALSE
    /\ UNCHANGED <<maze, caller>>
    /\ Enter(a, start, end)

InitCompare == Start(WideMazes)

NextCompare ==
    \/ pc = "idle" /\ \E a \in Compared : \E s, e \in OpenCells(maze) : Call(a, s, e)
    \/ \E a \in Compared : call_other(a)
    \/ BfsStep
    \/ AStarStep

SpecCompare == InitCompare /\ [][NextCompare]_vars

\* Repeated invocations on one maze.
NextAgain ==
    \/ \E a \in Algorithms : solve_maze(a)
    \/ \E a \in Algorithms : solve_again(a)
    \/ DfsStep
    \/ BfsStep
    \/ AStarStep

InitAgain == Start(SmallMazes)

SpecAgain == InitAgain /\ [][NextAgain]_vars

-----------------------------------------------------------------------------
(* Reference notions on the maze itself: cells inside the grid, moves of one *)
(* unit along one axis between Open cells.                                   *)

Adjacent(a, b) == Abs(a[1] - b[1]) + Abs(a[2] - b[2]) = 1

\* S together with the Open cells one move away from S.
Grow(m, S) == S \cup {n \in OpenCells(m) : \E x \in S : Adjacent(x, n)}

\* The Open cells reachable from s.
RECURSIVE Closure(_, _)
Closure(m, S) == IF Grow(m, S) = S THEN S ELSE Closure(m, Grow(m, S))
Reachable(m, s) == Closure(m, {s} \cap OpenCells(m))

\* Edge count of a shortest path from the cells S (d moves from the start) to e;
\* used only when e is reachable.
RECURSIVE Levels(_, _, _, _)
Levels(m, S, e, d) == IF e \in S THEN d ELSE Levels(m, Grow(m, S), e, d + 1)
Distance(m, s, e) == Levels(m, {s}, e, 0)

Searching == algorithm # "none"
Ended == Searching /\ pc \in {"done", "error"}
Returned == Searching /\ pc = "done"
EndReachable == end \in Reachable(maze, start)

\* The coordinates held by the frontier of the running search.
FrontierNodes ==
    {stack[i][1] : i \in 1..Len(stack)} \cup {queue[i][1] : i \in 1..Len(queue)}
    \cup {heap[i][3] : i \in 1..Len(heap)}

-----------------------------------------------------------------------------
(* Claims. *)

\* C1: whenever end is reachable from start through Open cells, bfs_algorithm
\* returns a path whose edge count is the shortest-path edge count.
C1_BfsReturnsShortest ==
    (algorithm = "bfs" /\ Ended /\ EndReachable)
        => (pc = "done" /\ path # <<>> /\ Len(path) - 1 = Distance(maze, start, end))

\* C2: a non-empty path returned by a_star_algorithm has no more edges than any
\* valid path through Open cells from start to end (that is, than a shortest one).
C2_AStarPathIsShortest ==
    (algorithm = "astar" /\ Returned /\ path # <<>> /\ EndReachable)
        => Len(path) - 1 <= Distance(maze, start, end)

C2_Witness ==
    /\ algorithm = "astar" /\ Returned /\ EndReachable
    /\ Len(path) >= 4
    /\ Len(path) - 1 = Distance(maze, start, end)
    /\ Cardinality(Reachable(maze, start)) > Len(path)

\* C3: each search returns the empty path if and only if end is unreachable from
\* start through Open cells.
C3_EmptyIffUnreachable ==
    Returned => (path = <<>> <=> ~EndReachable)

\* C4: every coordinate of a returned path is a pair of non-negative integers
\* inside the grid whose cell is Open.
C4_PathOnOpenCells ==
    Returned => \A i \in 1..Len(path) : path[i] \in OpenCells(maze)

\* C5: a neighbour outside the grid is an invalid move: it never enters the
\* frontier and probing it never raises a fault.
C5_OutOfGridIsInvalidMove ==
    Searching => (exit # "IndexError" /\ FrontierNodes \subseteq InGrid(maze))

\* C6: a search ends, and only by dequeuing end or by finding the frontier
\* empty: at any moment it is still looping or has returned one of those ways.
C6_EndsByFoundOrExhausted ==
    Searching =>
        \/ pc = "loop"
        \/ pc = "done" /\ exit = "found" /\ path # <<>> /\ path[Len(path)] = end
        \/ pc = "done" /\ exit = "exhausted" /\ path = <<>>

\* C7 (as claimed): a returned non-empty path comes with nodes_explored >= 1.
C7_FoundExploresAtLeastOne ==
    (Returned /\ path # <<>>) => nodes_explored >= 1

\* C7 (amended): a returned non-empty path comes with nodes_explored >= 1 when
\* start # end and with nodes_explored = 0 when start = end; an empty path
\* comes with nodes_explored >= 0.
C7_FoundExploresAtLeastOneUnlessStartIsEnd ==
    Returned =>
        /\ (path # <<>> /\ start # end) => nodes_explored >= 1
        /\ (path # <<>> /\ start = end) => nodes_explored = 0
        /\ nodes_explored >= 0

C7_Witness == Returned /\ path # <<>> /\ start # end /\ nodes_explored >= 2

\* C8: when end is unreachable from start, each search returns the empty path
\* and nodes_explored is the number of Open cells reachable from start.
C8_UnreachableExploresComponent ==
    (Returned /\ ~EndReachable) =>
        /\ path = <<>>
        /\ nodes_explored = Cardinality(Reachable(maze, start))

\* Columns of the Open cells of a row, and the first and the last of them.
OpenCols(row) == {c \in 0..(Len(row) - 1) : row[c + 1] = "-"}
FirstOpen(row) == CHOOSE c \in OpenCols(row) : \A d \in OpenCols(row) : c <= d
LastOpen(row) == CHOOSE c \in OpenCols(row) : \A d \in OpenCols(row) : c >= d
HasEntranceAndExit ==
    maze # <<>> /\ OpenCols(maze[1]) # {} /\ OpenCols(maze[Len(maze)]) # {}

\* C9 (as claimed): solve_maze hands the search start = (0, first Open column of
\* row 0) and end = (final row, last Open column of the final row).
C9_EndIsLastOpenOfFinalRow ==
    (caller = "solve_maze" /\ Searching) =>
        /\ start = <<0, FirstOpen(maze[1])>>
        /\ end = <<Len(maze) - 1, LastOpen(maze[Len(maze)])>>

\* C9 (amended): for a maze whose first and final rows hold an Open cell,
\* solve_maze hands the search start = (0, first Open column of row 0) and
\* end = (final row, FIRST Open column of the final row).
C9_EndIsFirstOpenOfFinalRow ==
    (caller = "solve_maze" /\ HasEntranceAndExit) =>
        /\ Searching
        /\ start = <<0, FirstOpen(maze[1])>>
        /\ end = <<Len(maze) - 1, FirstOpen(maze[Len(maze)])>>

C9_Witness ==
    /\ caller = "solve_maze" /\ Searching
    /\ Len(maze) >= 2
    /\ FirstOpen(maze[Len(maze)]) # LastOpen(maze[Len(maze)])
    /\ FirstOpen(maze[1]) > 0

\* C10: the same algorithm invoked again on the same maze, start and end, with
\* any invocations of the other algorithms in between, ends as the first
\* invocation did: same path, same nodes_explored, same way of ending.
C10_RepeatedInvocationAgrees ==
    (Ended /\ first.algorithm = algorithm) => Outcome = first

C10_Witness ==
    /\ Returned /\ first.algorithm = algorithm /\ between
    /\ Len(path) >= 3 /\ nodes_explored >= 2

\* The 3x3 grid whose cells are all Open.
AllOpen3x3 == [r \in 1..3 |-> [c \in 1..3 |-> "-"]]

\* C11: on the 3x3 all-Open grid with start = (0,0) and end = (2,2), each search
\* returns: bfs_algorithm and a_star_algorithm a path of exactly 5 coordinates,
\* dfs_algorithm a path of 5 to 9 coordinates.
C11_AllOpen3x3PathLengths ==
    (maze = AllOpen3x3 /\ start = <<0, 0>> /\ end = <<2, 2>> /\ Ended) =>
        /\ pc = "done"
        /\ algorithm \in {"bfs", "astar"} => Len(path) = 5
        /\ algorithm = "dfs" => (5 <= Len(path) /\ Len(path) <= 9)

\* C12: a search called with start = end returns, and the path it returns is
\* exactly [start].
C12_StartIsEndReturnsStart ==
    (Ended /\ start = end) => (pc = "done" /\ path = <<start>>)

C12_Witness ==
    /\ Returned /\ start = end /\ path = <<start>>
    /\ start[1] > 0 /\ start[2] > 0
    /\ Cardinality(OpenCells(maze)) >= 3

\* The <<coordinate, path so far>> pairs held by the frontier.
FrontierEntries ==
    {stack[i] : i \in 1..Len(stack)} \cup {queue[i] : i \in 1..Len(queue)}
    \cup {<<heap[i][3], heap[i][4]>> : i \in 1..Len(heap)}

\* p runs from s to n by moves of one unit along one axis.
Connects(p, s, n) ==
    /\ p # <<>>
    /\ p[1] = s
    /\ p[Len(p)] = n
    /\ \A i \in 1..(Len(p) - 1) : Adjacent(p[i], p[i + 1])

\* C13: in every state of a search the path of every frontier entry begins
\* with start, ends with the entry's own coordinate and moves one unit along
\* one axis at a time; so does every non-empty returned path, from start to end.
C13_FrontierPathsConnectStartToNode ==
    Searching =>
        /\ \A en \in FrontierEntries : Connects(en[2], start, en[1])
        /\ (pc = "done" /\ path # <<>>) => Connects(path, start, end)

C13_Witness ==
    /\ Returned /\ Len(path) >= 4
    /\ \E en \in FrontierEntries : Len(en[2]) >= 3 /\ en[1] # end
    /\ Cardinality(FrontierEntries) >= 2

\* The frontier of the running search as a list of <<coordinate, path>> pairs.
Frontier ==
    IF algorithm = "dfs" THEN stack
    ELSE IF algorithm = "bfs" THEN queue
    ELSE [i \in 1..Len(heap) |-> <<heap[i][3], heap[i][4]>>]

\* This step takes an entry of coordinate n out of the frontier and puts in
\* entries for neighbours of n only, each with the taken entry's path extended.
DequeuesAndExpands(n) ==
    \E i \in 1..Len(Frontier) :
        /\ Frontier[i][1] = n
        /\ Len(Frontier') >= Len(Frontier) - 1
        /\ SubSeq(Frontier', 1, Len(Frontier) - 1) = Remove(Frontier, i)
        /\ \A j \in Len(Frontier)..Len(Frontier') :
              /\ Adjacent(Frontier'[j][1], n)
              /\ Frontier'[j][2] = Append(Frontier[i][2], Frontier'[j][1])

\* C14: within one invocation the visited set starts empty and only grows, and
\* a coordinate enters it only in the step that dequeues an entry of that
\* coordinate and expands it; the neighbours that step inserts are not added.
C14_VisitedGrowsOnlyAtExpansion ==
    [][IF pc = "loop"
       THEN /\ visited \subseteq visited'
            /\ visited' # visited =>
                  \E n \in FrontierNodes \ visited :
                     /\ visited' = visited \cup {n}
                     /\ DequeuesAndExpands(n)
       ELSE pc' = "loop" => visited' = {}]_vars

C14_Witness ==
    /\ pc = "loop" /\ first # NoOutcome /\ first.nodes_explored >= 2
    /\ Cardinality(visited) >= 2
    /\ \E n \in FrontierNodes : n \notin visited

\* C15: node_count is the number of coordinates in visited in every state of a
\* search, so each coordinate is expanded once at most; a pass that takes out an
\* entry whose coordinate is already visited leaves node_count alone and only
\* removes that entry; the returned nodes_explored is that number too.
C15_CountIsVisitedSize ==
    [][/\ Searching' =>
            /\ node_count' = Cardinality(visited')
            /\ pc' = "done" => nodes_explored' = Cardinality(visited')
       /\ (pc = "loop" /\ pc' = "loop" /\ visited' = visited) =>
            /\ node_count' = node_count
            /\ \E i \in 1..Len(Frontier) :
                  Frontier[i][1] \in visited /\ Frontier' = Remove(Frontier, i)
       /\ (pc = "loop" /\ visited' # visited) =>
            /\ node_count' = node_count + 1
            /\ Cardinality(visited') = Cardinality(visited) + 1]_vars

C15_Witness ==
    /\ Returned /\ nodes_explored >= 3
    /\ nodes_explored = Cardinality(visited)
    /\ FrontierNodes \cap visited # {}

\* The coordinates of the entries a pass puts into the frontier, and the Open
\* cells of the grid one move away from n.
Inserted == {Frontier'[j][1] : j \in Len(Frontier)..Len(Frontier')}
OpenNeighbors(n) == {c \in OpenCells(maze) : Adjacent(c, n)}

\* C16: a pass that expands n inserts, in bfs_algorithm, only Open neighbours
\* of n that are not in visited at that time, and in dfs_algorithm and
\* a_star_algorithm every Open neighbour of n, visited or not.
C16_AsymmetricDuplicateFiltering ==
    [][(pc = "loop" /\ visited' # visited) =>
          \A n \in visited' \ visited :
             IF algorithm = "bfs"
             THEN Inserted \subseteq OpenNeighbors(n) \ visited'
             ELSE OpenNeighbors(n) \subseteq Inserted]_vars

\* Every heap entry <<priority, cost, coordinate, path>> has
\* priority = cost + |row - end_row| + |col - end_col| and cost = len(path) - 1.
HeapKeys ==
    \A i \in 1..Len(heap) :
        /\ heap[i][1] = heap[i][2] + Abs(heap[i][3][1] - end[1])
                                   + Abs(heap[i][3][2] - end[2])
        /\ heap[i][2] = Len(heap[i][4]) - 1

\* C17: in a_star_algorithm every heap entry's priority is its cost plus the
\* Manhattan distance from its coordinate to end, its cost is the length of its
\* path minus one, and every pass extracts an entry whose priority is at most
\* the priority of every entry left in the heap.
C17_HeapKeysAndMinExtraction ==
    [][/\ algorithm' = "astar" => HeapKeys'
       /\ (algorithm = "astar" /\ pc = "loop" /\ heap # <<>>) =>
            \E i \in 1..Len(heap) :
               /\ Len(heap') >= Len(heap) - 1
               /\ SubSeq(heap', 1, Len(heap) - 1) = Remove(heap, i)
               /\ \A j \in 1..Len(heap) : heap[i][1] <= heap[j][1]]_vars

C17_Witness ==
    /\ algorithm = "astar" /\ pc = "loop" /\ Cardinality(visited) >= 3
    /\ Len(heap) >= 3
    /\ \E i, j \in 1..Len(heap) : heap[i][1] < heap[j][1] /\ heap[i][2] > heap[j][2]

\* C18: every non-empty path a search returns is simple: no coordinate occurs
\* in it twice.
C18_ReturnedPathIsSimple ==
    (Returned /\ path # <<>>) =>
        \A i, j \in 1..Len(path) : path[i] = path[j] => i = j

C18_Witness ==
    /\ Returned /\ algorithm \in {"dfs", "astar"} /\ Len(path) >= 5
    /\ \A i, j \in 1..Len(path) : path[i] = path[j] => i = j
    /\ \E en \in FrontierEntries :
          en[1] \in visited /\ \E k \in 1..(Len(en[2]) - 1) : en[2][k] = en[1]

\* Both a_star_algorithm and bfs_algorithm have returned on the same maze,
\* start and end: one outcome is the current one, the other is kept in first.
BothReturned ==
    /\ Returned
    /\ first.exit \in {"found", "exhausted"}
    /\ {algorithm, first.algorithm} = {"astar", "bfs"}
AStarCount == IF algorithm = "astar" THEN nodes_explored ELSE first.nodes_explored
BfsCount == IF algorithm = "bfs" THEN nodes_explored ELSE first.nodes_explored

\* C19: whenever a_star_algorithm and bfs_algorithm both return on a maze, start
\* and end, a_star_algorithm's nodes_explored is at most bfs_algorithm's, and the
\* two are equal when end is unreachable from start through Open cells.
C19_AStarExploresNoMoreThanBfs ==
    BothReturned =>
        /\ AStarCount <= BfsCount
        /\ ~EndReachable => AStarCount = BfsCount

====
